---- MODULE Spec2Model ----
(***************************************************************************)
(* A model of the access-queue crate (src/src/lib.rs).                     *)
(*                                                                         *)
(* AccessQueue { count: AtomicUsize, event: Event, inner: T } is shared by *)
(* concurrent callers.  Every access to `count` and to the listener list   *)
(* of `event` is one atomic step; the steps of different callers          *)
(* interleave freely.  Two kinds of callers are modelled:                  *)
(*   - Requests: Access futures, polled by their tasks, and the            *)
(*     AccessGuards they resolve to;                                       *)
(*   - Threads: callers of AccessQueue::block and AccessQueue::release.    *)
(***************************************************************************)
EXTENDS Integers, Sequences, FiniteSets, TLC

\* ------------------------------------------------------------------ bounds
NumRequests == 3
NumThreads == 2
MaxCount == 2
MaxAmt == 2
MaxCalls == 3
CounterBits == 3
NumMixed == 2
MaxMixedCalls == 2
\* largest amount of a block or release call of the mixed specification
MaxMixedAmt == 1
\* requests of the specifications where a request is polled again
NumReuse == 2
\* guards handed out before an Access is no longer polled again
MaxGuards == 3

Requests == 1..NumRequests
Threads == 1..NumThreads

\* The callers of the mixed specification: the first NumMixed requests and
\* one thread that calls block and release beside them.
MixedRequests == 1..NumMixed
MixedThread == 1
MixedAmts == 0..MaxMixedAmt
ReuseRequests == 1..NumReuse

\* usize arithmetic: the counter is a CounterBits-wide unsigned integer.
Modulus == 2 ^ CounterBits
MaxUsize == Modulus - 1

\* The amounts handed to block and release: small ones and usize::MAX.
Amts == (0..MaxAmt) \cup {MaxUsize}

VARIABLES
    limit,      \* the count given to AccessQueue::new
    count,      \* AccessQueue.count
    list,       \* the listener list of AccessQueue.event, in registration order
    pc,         \* per request: where its task is in Access::poll
    listener,   \* per request: Access.listener is Some
    current,    \* per request: the local `current` of block(1)
    ret,        \* per request: what its last poll returned
    woken,      \* per request: its waker has fired since its last poll began
    guard,      \* per request: the state of the AccessGuard it resolved to
    tpc,        \* per thread: where it is in block or release
    tamt,       \* per thread: the argument amt
    tcur,       \* per thread: the local `current` of block
    tres,       \* per thread: what its last block call returned
    calls,      \* number of block, release and skip_queue calls started
    released,   \* total amount added by fetch_add so far
    blocked     \* total amount subtracted by successful block calls so far

reqVars == <<pc, listener, current, ret, woken, guard>>
thrVars == <<tpc, tamt, tcur, tres, calls>>
vars == <<limit, count, list, pc, listener, current, ret, woken, guard,
          tpc, tamt, tcur, tres, calls, released, blocked>>

\* ------------------------------------------------------- the counter
\* (mutant) the loop test is strict: a counter equal to amt is refused
BlockCondStrict(cur, amt) == cur > amt

\* (mutant) the loop test is off by one: a counter one short of amt passes
BlockCondLoose(cur, amt) == cur + 1 >= amt

\* block: `while current >= amt`
BlockCond(cur, amt) == cur >= amt

\* (mutant) the exchange stores the value it read: nothing is subtracted
BlockNewKeeps(cur, amt) == cur

\* block: the candidate `current - amt` of compare_exchange_weak
BlockNew(cur, amt) == cur - amt

\* (mutant) a plain store instead of a compare-exchange: it always succeeds
CasAlways(c, cur) == TRUE

\* block: compare_exchange_weak succeeds only if count still holds `current`
\* (a spurious failure of the weak exchange returns the same value and
\* leaves every variable as it was: a stuttering step)
CasSucceeds(c, cur) == c = cur

\* (mutant) release never raises the counter above the construction count
FetchAddCapped(c, amt) == IF c + amt > limit THEN limit ELSE c + amt

\* (mutant) the addition is lost: the counter keeps its value
FetchAddKeeps(c, amt) == c

\* (mutant) the addition saturates at usize::MAX
FetchAddSaturates(c, amt) == IF c + amt > MaxUsize THEN MaxUsize ELSE c + amt

\* release: count.fetch_add(amt), which wraps around on overflow
FetchAdd(c, amt) == (c + amt) % Modulus

\* ------------------------------------------------------- the event
\* A listener entry: its owner and the state of event_listener's entry:
\* Created (no waker yet), Polling (waker stored), Notified.
Entry(r, s) == [owner |-> r, state |-> s]

HasEntry(l, r) == \E i \in 1..Len(l) : l[i].owner = r

IsNotified(l, r) == \E i \in 1..Len(l) : l[i].owner = r /\ l[i].state = "Notified"

Remove(l, r) == SelectSeq(l, LAMBDA e : e.owner # r)

SetState(l, r, s) == [i \in 1..Len(l) |-> IF l[i].owner = r THEN Entry(r, s) ELSE l[i]]

\* (mutant) the new entry goes to the head of the list
ListenFirst(l, r) == <<Entry(r, "Created")>> \o l

\* Event::listen: a new entry at the tail of the list
ListenAppend(l, r) == Append(l, Entry(r, "Created"))

\* (mutant) notifies the most recently registered unnotified entries first
RECURSIVE NotifyLast(_, _)
NotifyLast(l, n) ==
    IF n = 0 \/ l = << >> THEN l
    ELSE LET k == Len(l)
             front == SubSeq(l, 1, k - 1)
         IN  IF l[k].state = "Notified"
             THEN NotifyLast(front, n) \o <<l[k]>>
             ELSE NotifyLast(front, n - 1) \o <<Entry(l[k].owner, "Notified")>>

\* (mutant) Event::notify(n): entries that are already notified count
\* towards n, so only the shortfall is notified
RECURSIVE NotifyTotal(_, _)
NotifyTotal(l, n) ==
    IF n = 0 \/ l = << >> THEN l
    ELSE IF Head(l).state = "Notified"
         THEN <<Head(l)>> \o NotifyTotal(Tail(l), n - 1)
         ELSE <<Entry(Head(l).owner, "Notified")>> \o NotifyTotal(Tail(l), n - 1)

\* Event::notify_additional(n): notifies the first n entries that are not
\* yet notified, in registration order
RECURSIVE NotifyAdditional(_, _)
NotifyAdditional(l, n) ==
    IF n = 0 \/ l = << >> THEN l
    ELSE IF Head(l).state = "Notified"
         THEN <<Head(l)>> \o NotifyAdditional(Tail(l), n)
         ELSE <<Entry(Head(l).owner, "Notified")>> \o NotifyAdditional(Tail(l), n - 1)

\* the wakers a notification fires: the entries that held a waker (Polling)
\* and became Notified
WokenBy(l, l2) ==
    {l[i].owner : i \in {j \in 1..Len(l) : l[j].state = "Polling" /\ l2[j].state = "Notified"}}

Wake(l, l2) == [r \in Requests |-> woken[r] \/ r \in WokenBy(l, l2)]

\* ------------------------------------------------------- construction
\* AccessQueue::new(inner, count); no request polled, no call started
Init ==
    /\ limit \in 0..MaxCount
    /\ count = limit
    /\ list = << >>
    /\ pc = [r \in Requests |-> "idle"]
    /\ listener = [r \in Requests |-> FALSE]
    /\ current = [r \in Requests |-> 0]
    /\ ret = [r \in Requests |-> "none"]
    /\ woken = [r \in Requests |-> TRUE]
    /\ guard = [r \in Requests |-> "none"]
    /\ tpc = [t \in Threads |-> "idle"]
    /\ tamt = [t \in Threads |-> 0]
    /\ tcur = [t \in Threads |-> 0]
    /\ tres = [t \in Threads |-> "none"]
    /\ calls = 0
    /\ released = 0
    /\ blocked = 0

\* ------------------------------------------------------- Access::poll
\* (mutant) a listener that has fired is polled like one that has not: poll
\* returns Pending and block(1) is not tried
PollKeepsWaiting(r) ==
    /\ pc[r] = "idle"
    /\ woken' = [woken EXCEPT ![r] = FALSE]
    /\ IF listener[r]
       THEN /\ ret' = [ret EXCEPT ![r] = "Pending"]
            /\ UNCHANGED <<list, listener, pc>>
       ELSE /\ pc' = [pc EXCEPT ![r] = "load"]
            /\ ret' = [ret EXCEPT ![r] = "none"]
            /\ UNCHANGED <<list, listener>>
    /\ UNCHANGED <<limit, count, current, guard, released, blocked>>
    /\ UNCHANGED thrVars

\* (mutant) a stored listener that has not fired is dropped and poll goes on
\* to block(1)
PollRetries(r) ==
    /\ pc[r] = "idle"
    /\ woken' = [woken EXCEPT ![r] = FALSE]
    /\ list' = Remove(list, r)
    /\ listener' = [listener EXCEPT ![r] = FALSE]
    /\ pc' = [pc EXCEPT ![r] = "load"]
    /\ ret' = [ret EXCEPT ![r] = "none"]
    /\ UNCHANGED <<limit, count, current, guard, released, blocked>>
    /\ UNCHANGED thrVars

\* poll is entered: with a stored listener, that listener is polled first
\* (ready! returns Pending while it has not fired); without one, poll goes
\* on to block(1).
Poll(r) ==
    /\ pc[r] = "idle"
    /\ woken' = [woken EXCEPT ![r] = FALSE]
    /\ IF listener[r]
       THEN IF IsNotified(list, r)
            THEN /\ list' = Remove(list, r)
                 /\ listener' = [listener EXCEPT ![r] = FALSE]
                 /\ pc' = [pc EXCEPT ![r] = "load"]
                 /\ ret' = [ret EXCEPT ![r] = "none"]
            ELSE /\ list' = SetState(list, r, "Polling")
                 /\ ret' = [ret EXCEPT ![r] = "Pending"]
                 /\ UNCHANGED <<listener, pc>>
       ELSE /\ pc' = [pc EXCEPT ![r] = "load"]
            /\ ret' = [ret EXCEPT ![r] = "none"]
            /\ UNCHANGED <<list, listener>>
    /\ UNCHANGED <<limit, count, current, guard, released, blocked>>
    /\ UNCHANGED thrVars

\* block(1): `let mut current = self.count.load(SeqCst)` and the loop test
BlockLoad(r) ==
    /\ pc[r] = "load"
    /\ current' = [current EXCEPT ![r] = count]
    /\ pc' = [pc EXCEPT ![r] = IF BlockCond(count, 1) THEN "cas" ELSE "listen"]
    /\ UNCHANGED <<limit, count, list, listener, ret, woken, guard, released, blocked>>
    /\ UNCHANGED thrVars

\* block(1): compare_exchange_weak; Ok => block returns true and poll
\* returns Ready(AccessGuard); Err(n) => current = n and the loop test again
BlockCas(r) ==
    /\ pc[r] = "cas"
    /\ IF CasSucceeds(count, current[r])
       THEN /\ count' = BlockNew(current[r], 1)
            /\ blocked' = blocked + 1
            /\ pc' = [pc EXCEPT ![r] = "done"]
            /\ ret' = [ret EXCEPT ![r] = "Ready"]
            /\ guard' = [guard EXCEPT ![r] = "live"]
            /\ current' = [current EXCEPT ![r] = 0]
       ELSE /\ current' = [current EXCEPT ![r] = count]
            /\ pc' = [pc EXCEPT ![r] = IF BlockCond(count, 1) THEN "cas" ELSE "listen"]
            /\ UNCHANGED <<count, blocked, ret, guard>>
    /\ UNCHANGED <<limit, list, listener, woken, released>>
    /\ UNCHANGED thrVars

\* block(1) returned false and self.listener is None:
\* `let mut listener = self.queue.event.listen()`
Listen(r) ==
    /\ pc[r] = "listen"
    /\ list' = ListenAppend(list, r)
    /\ pc' = [pc EXCEPT ![r] = "lpoll"]
    /\ current' = [current EXCEPT ![r] = 0]
    /\ UNCHANGED <<limit, count, listener, ret, woken, guard, released, blocked>>
    /\ UNCHANGED thrVars

\* `if let Poll::Pending = Pin::new(&mut listener).poll(ctx)`: Pending stores
\* the listener and returns Pending; Ready drops it and loops to block(1)
ListenerPoll(r) ==
    /\ pc[r] = "lpoll"
    /\ IF IsNotified(list, r)
       THEN /\ list' = Remove(list, r)
            /\ pc' = [pc EXCEPT ![r] = "load"]
            /\ UNCHANGED <<listener, ret>>
       ELSE /\ list' = SetState(list, r, "Polling")
            /\ listener' = [listener EXCEPT ![r] = TRUE]
            /\ pc' = [pc EXCEPT ![r] = "idle"]
            /\ ret' = [ret EXCEPT ![r] = "Pending"]
    /\ UNCHANGED <<limit, count, current, woken, guard, released, blocked>>
    /\ UNCHANGED thrVars

\* ------------------------------------------------------- AccessGuard
\* Drop for AccessGuard: release(1), first `self.count.fetch_add(1, SeqCst)`
DropGuard(r) ==
    /\ guard[r] = "live"
    /\ guard' = [guard EXCEPT ![r] = "releasing"]
    /\ count' = FetchAdd(count, 1)
    /\ released' = released + 1
    /\ UNCHANGED <<limit, list, pc, listener, current, ret, woken, blocked>>
    /\ UNCHANGED thrVars

\* (mutant) the drop raises the counter but notifies no listener
DropNotifySkips(r) ==
    /\ guard[r] = "releasing"
    /\ guard' = [guard EXCEPT ![r] = "dropped"]
    /\ UNCHANGED <<limit, count, list, woken, pc, listener, current, ret, released, blocked>>
    /\ UNCHANGED thrVars

\* Drop for AccessGuard: release(1), then `self.event.notify_additional(1)`
DropNotify(r) ==
    /\ guard[r] = "releasing"
    /\ guard' = [guard EXCEPT ![r] = "dropped"]
    /\ list' = NotifyAdditional(list, 1)
    /\ woken' = Wake(list, list')
    /\ UNCHANGED <<limit, count, pc, listener, current, ret, released, blocked>>
    /\ UNCHANGED thrVars

\* (mutant) the guard's drop still runs: the slot goes back to the counter
HoldReleases(r) ==
    /\ guard[r] = "live"
    /\ guard' = [guard EXCEPT ![r] = "held"]
    /\ count' = FetchAdd(count, 1)
    /\ released' = released + 1
    /\ UNCHANGED <<limit, list, pc, listener, current, ret, woken, blocked>>
    /\ UNCHANGED thrVars

\* hold_indefinitely: ManuallyDrop::new(self), the guard's drop never runs
HoldIndefinitely(r) ==
    /\ guard[r] = "live"
    /\ guard' = [guard EXCEPT ![r] = "held"]
    /\ UNCHANGED <<limit, count, list, pc, listener, current, ret, woken, released, blocked>>
    /\ UNCHANGED thrVars


\* ------------------------------------------------------- an Access polled again
\* (mutant) an Access that has resolved hands out a guard again without
\* entering block(1)
PollAgainReady(r) ==
    /\ pc[r] = "done"
    /\ guard[r] \in {"dropped", "requeued"}
    /\ blocked < MaxGuards
    /\ guard' = [guard EXCEPT ![r] = "live"]
    /\ woken' = [woken EXCEPT ![r] = FALSE]
    /\ UNCHANGED <<limit, count, list, pc, listener, current, ret, released, blocked>>
    /\ UNCHANGED thrVars

\* poll is entered on an Access that has already returned Ready: the Access
\* keeps no record of having resolved and its listener is None, so poll goes
\* on to block(1) as on a first poll. Taken once the earlier guard is gone
\* (dropped or reenqueued), as in tests.rs, and at most MaxGuards guards
\* are handed out.
PollAgain(r) ==
    /\ pc[r] = "done"
    /\ guard[r] \in {"dropped", "requeued"}
    /\ blocked < MaxGuards
    /\ ~listener[r]
    /\ woken' = [woken EXCEPT ![r] = FALSE]
    /\ pc' = [pc EXCEPT ![r] = "load"]
    /\ ret' = [ret EXCEPT ![r] = "none"]
    /\ UNCHANGED <<limit, count, list, listener, current, guard, released, blocked>>
    /\ UNCHANGED thrVars

\* ------------------------------------------------------- an Access dropped
\* the list after the listener of r is dropped: the entry is removed, and a
\* notification it had received and not consumed is passed on to the next
\* entry that is not yet notified (Drop for EventListener)
DropListener(l, r) ==
    IF IsNotified(l, r) THEN NotifyAdditional(Remove(l, r), 1) ELSE Remove(l, r)

\* (mutant) the drop of a pending Access gives a slot back to the counter
CancelReleases(r) ==
    /\ pc[r] = "idle"
    /\ pc' = [pc EXCEPT ![r] = "cancelled"]
    /\ list' = DropListener(list, r)
    /\ woken' = Wake(Remove(list, r), list')
    /\ listener' = [listener EXCEPT ![r] = FALSE]
    /\ count' = FetchAdd(count, 1)
    /\ UNCHANGED <<limit, current, ret, guard, released, blocked>>
    /\ UNCHANGED thrVars

\* (mutant) the listener of a dropped Access is discarded with the
\* notification it had received
CancelDiscards(r) ==
    /\ pc[r] = "idle"
    /\ pc' = [pc EXCEPT ![r] = "cancelled"]
    /\ list' = Remove(list, r)
    /\ listener' = [listener EXCEPT ![r] = FALSE]
    /\ UNCHANGED <<limit, count, current, ret, woken, guard, released, blocked>>
    /\ UNCHANGED thrVars

\* an Access is dropped before it has resolved, between two polls: Access
\* has no Drop of its own, its fields are dropped, and with them the
\* listener it may hold
Cancel(r) ==
    /\ pc[r] = "idle"
    /\ pc' = [pc EXCEPT ![r] = "cancelled"]
    /\ list' = DropListener(list, r)
    /\ woken' = Wake(Remove(list, r), list')
    /\ listener' = [listener EXCEPT ![r] = FALSE]
    /\ UNCHANGED <<limit, count, current, ret, guard, released, blocked>>
    /\ UNCHANGED thrVars

\* ------------------------------------------------------- reenqueue
\* AccessGuard::reenqueue (called by tests.rs, not defined in lib.rs): the
\* guard is consumed and its slot goes to the next waiter. With poll as it
\* is, a waiter resolves only through block(1), so the slot passes through
\* the counter as in release(1): first the counter rises by 1
Reenqueue(r) ==
    /\ guard[r] = "live"
    /\ guard' = [guard EXCEPT ![r] = "requeueing"]
    /\ count' = FetchAdd(count, 1)
    /\ released' = released + 1
    /\ UNCHANGED <<limit, list, pc, listener, current, ret, woken, blocked>>
    /\ UNCHANGED thrVars

\* reenqueue, then: exactly one waiter is notified, the earliest registered
\* one that is not yet notified
ReenqueueNotify(r) ==
    /\ guard[r] = "requeueing"
    /\ guard' = [guard EXCEPT ![r] = "requeued"]
    /\ list' = NotifyAdditional(list, 1)
    /\ woken' = Wake(list, list')
    /\ UNCHANGED <<limit, count, pc, listener, current, ret, released, blocked>>
    /\ UNCHANGED thrVars

\* ------------------------------------------------------- skip_queue
\* (mutant) skip_queue on a pending Access gives up its place: the listener
\* it holds is deregistered
AccessSkipLeaves(r) ==
    /\ pc[r] = "idle"
    /\ calls' = calls + 1
    /\ list' = Remove(list, r)
    /\ listener' = [listener EXCEPT ![r] = FALSE]
    /\ UNCHANGED <<limit, count, pc, current, ret, woken, guard, released, blocked>>
    /\ UNCHANGED <<tpc, tamt, tcur, tres>>

\* Access::skip_queue on a pending request: `self.queue.skip_queue()`, a
\* shared reference to inner; `calls` counts the call
AccessSkipQueue(r) ==
    /\ pc[r] = "idle"
    /\ calls' = calls + 1
    /\ UNCHANGED <<limit, count, list, released, blocked>>
    /\ UNCHANGED reqVars
    /\ UNCHANGED <<tpc, tamt, tcur, tres>>

\* AccessQueue::skip_queue called by a thread: `&self.inner`
SkipQueue(t) ==
    /\ tpc[t] = "idle"
    /\ calls' = calls + 1
    /\ tres' = [tres EXCEPT ![t] = "inner"]
    /\ UNCHANGED <<limit, count, list, released, blocked>>
    /\ UNCHANGED reqVars
    /\ UNCHANGED <<tpc, tamt, tcur>>

\* ------------------------------------------------------- block, release
\* a thread calls queue.block(amt):
\* `let mut current = self.count.load(SeqCst)` and the loop test; the loop
\* is left with `false` when current < amt
CallBlock(t, amt) ==
    /\ tpc[t] = "idle"
    /\ calls < MaxCalls
    /\ calls' = calls + 1
    /\ IF BlockCond(count, amt)
       THEN /\ tcur' = [tcur EXCEPT ![t] = count]
            /\ tamt' = [tamt EXCEPT ![t] = amt]
            /\ tpc' = [tpc EXCEPT ![t] = "cas"]
            /\ tres' = [tres EXCEPT ![t] = "none"]
       ELSE /\ tres' = [tres EXCEPT ![t] = "false"]
            /\ UNCHANGED <<tpc, tamt, tcur>>
    /\ UNCHANGED <<limit, count, list, released, blocked>>
    /\ UNCHANGED reqVars

\* block: compare_exchange_weak(current, current - amt); Ok => return true,
\* Err(n) => current = n and the loop test again
ThreadCas(t) ==
    /\ tpc[t] = "cas"
    /\ IF CasSucceeds(count, tcur[t])
       THEN /\ count' = BlockNew(tcur[t], tamt[t])
            /\ blocked' = blocked + tamt[t]
            /\ tpc' = [tpc EXCEPT ![t] = "idle"]
            /\ tres' = [tres EXCEPT ![t] = "true"]
            /\ tamt' = [tamt EXCEPT ![t] = 0]
            /\ tcur' = [tcur EXCEPT ![t] = 0]
       ELSE /\ IF BlockCond(count, tamt[t])
               THEN /\ tcur' = [tcur EXCEPT ![t] = count]
                    /\ UNCHANGED <<tpc, tres, tamt>>
               ELSE /\ tpc' = [tpc EXCEPT ![t] = "idle"]
                    /\ tres' = [tres EXCEPT ![t] = "false"]
                    /\ tamt' = [tamt EXCEPT ![t] = 0]
                    /\ tcur' = [tcur EXCEPT ![t] = 0]
            /\ UNCHANGED <<count, blocked>>
    /\ UNCHANGED <<limit, list, calls, released>>
    /\ UNCHANGED reqVars

\* a thread calls queue.release(amt): `self.count.fetch_add(amt, SeqCst)`
CallRelease(t, amt) ==
    /\ tpc[t] = "idle"
    /\ calls < MaxCalls
    /\ calls' = calls + 1
    /\ count' = FetchAdd(count, amt)
    /\ released' = released + amt
    /\ tpc' = [tpc EXCEPT ![t] = "notify"]
    /\ tamt' = [tamt EXCEPT ![t] = amt]
    /\ UNCHANGED <<limit, list, tcur, tres, blocked>>
    /\ UNCHANGED reqVars

\* release: `self.event.notify_additional(amt)`
ThreadNotify(t) ==
    /\ tpc[t] = "notify"
    /\ list' = NotifyAdditional(list, tamt[t])
    /\ woken' = Wake(list, list')
    /\ tpc' = [tpc EXCEPT ![t] = "idle"]
    /\ tamt' = [tamt EXCEPT ![t] = 0]
    /\ UNCHANGED <<limit, count, tcur, tres, calls, released, blocked>>
    /\ UNCHANGED <<pc, listener, current, ret, guard>>

\* ------------------------------------------------------- specifications
RequestStep(r) ==
    \/ Poll(r)
    \/ BlockLoad(r)
    \/ BlockCas(r)
    \/ Listen(r)
    \/ ListenerPoll(r)

GuardStep(r) ==
    \/ DropGuard(r)
    \/ DropNotify(r)
    \/ HoldIndefinitely(r)

\* Requests and their guards only: no direct block or release call.
Next ==
    \/ \E r \in Requests : RequestStep(r)
    \/ \E r \in Requests : GuardStep(r)

Spec == Init /\ [][Next]_vars

ThreadStep(t) ==
    \/ \E amt \in Amts : CallBlock(t, amt)
    \/ ThreadCas(t)
    \/ \E amt \in Amts : CallRelease(t, amt)
    \/ ThreadNotify(t)

\* Threads calling block and release only: no Access request is polled.
NextCalls == \E t \in Threads : ThreadStep(t)

SpecCalls == Init /\ [][NextCalls]_vars

\* Requests, guards and direct block/release calls together.
NextAll ==
    \/ \E r \in MixedRequests : RequestStep(r)
    \/ \E r \in MixedRequests : GuardStep(r)
    \/ calls < MaxMixedCalls /\ \E amt \in MixedAmts : CallBlock(MixedThread, amt)
    \/ calls < MaxMixedCalls /\ \E amt \in MixedAmts : CallRelease(MixedThread, amt)
    \/ ThreadCas(MixedThread)
    \/ ThreadNotify(MixedThread)

SpecAll == Init /\ [][NextAll]_vars

\* Requests and guards where every guard is dropped: no hold_indefinitely.
NextLive ==
    \/ \E r \in Requests : RequestStep(r)
    \/ \E r \in Requests : DropGuard(r)
    \/ \E r \in Requests : DropNotify(r)

\* The scheduling the liveness claims assume: a task whose waker has fired
\* is polled again, a poll that is running runs on, and every guard that
\* exists is dropped and its release completed.
Fairness ==
    \A r \in Requests :
        /\ WF_vars(woken[r] /\ Poll(r))
        /\ WF_vars(BlockLoad(r))
        /\ WF_vars(BlockCas(r))
        /\ WF_vars(Listen(r))
        /\ WF_vars(ListenerPoll(r))
        /\ WF_vars(DropGuard(r))
        /\ WF_vars(DropNotify(r))

SpecLive == Init /\ [][NextLive]_vars /\ Fairness

\* The first NumReuse requests and their guards, where every guard is
\* dropped and a request that has resolved may be polled again.
NextRepoll ==
    \/ \E r \in ReuseRequests : RequestStep(r)
    \/ \E r \in ReuseRequests : DropGuard(r)
    \/ \E r \in ReuseRequests : DropNotify(r)
    \/ \E r \in ReuseRequests : PollAgain(r)

SpecRepoll == Init /\ [][NextRepoll]_vars

\* The same, where a guard is dropped or reenqueued.
NextReuse ==
    \/ \E r \in ReuseRequests : RequestStep(r)
    \/ \E r \in ReuseRequests : DropGuard(r)
    \/ \E r \in ReuseRequests : DropNotify(r)
    \/ \E r \in ReuseRequests : PollAgain(r)
    \/ \E r \in ReuseRequests : Reenqueue(r)
    \/ \E r \in ReuseRequests : ReenqueueNotify(r)

SpecReuse == Init /\ [][NextReuse]_vars

\* Requests and guards where a request may be dropped before it resolves.
NextCancel ==
    \/ \E r \in Requests : RequestStep(r)
    \/ \E r \in Requests : GuardStep(r)
    \/ \E r \in Requests : Cancel(r)

SpecCancel == Init /\ [][NextCancel]_vars

\* Requests and guards, with skip_queue called on the queue and on pending
\* requests.
NextSkip ==
    \/ \E r \in MixedRequests : RequestStep(r)
    \/ \E r \in MixedRequests : GuardStep(r)
    \/ calls < MaxMixedCalls /\ SkipQueue(MixedThread)
    \/ calls < MaxMixedCalls /\ \E r \in MixedRequests : AccessSkipQueue(r)

SpecSkip == Init /\ [][NextSkip]_vars

\* ------------------------------------------------------- vocabulary
LiveGuards == {r \in Requests : guard[r] = "live"}
HeldGuards == {r \in Requests : guard[r] = "held"}
GoneGuards == {r \in Requests : guard[r] \in {"releasing", "dropped"}}

\* r returned Pending and waits on a listener that has not fired
Suspended(r) == pc[r] = "idle" /\ listener[r] /\ ~IsNotified(list, r)

\* nothing is under way that could still wake a suspended request: no poll
\* is running, no release is between its fetch_add and its notification,
\* and no notification waits to be picked up
Quiet ==
    /\ \A q \in Requests : pc[q] \in {"idle", "done"}
    /\ \A q \in Requests : guard[q] # "releasing"
    /\ \A t \in Threads : tpc[t] = "idle"
    /\ \A i \in 1..Len(list) : list[i].state # "Notified"

\* ------------------------------------------------------- claims
\* C1: with the counter changed only through Access requests and their
\* guards, counter + live guards + guards converted by hold_indefinitely
\* equals the construction count N in every reachable state, so at most N
\* guards are outstanding at the same time.
C1_SlotsConserved ==
    /\ count + Cardinality(LiveGuards) + Cardinality(HeldGuards) = limit
    /\ Cardinality(LiveGuards \cup HeldGuards) <= limit

C1_Witness ==
    /\ limit = MaxCount
    /\ count = 0
    /\ LiveGuards # {}
    /\ HeldGuards # {}

\* C2: an Access request never suspends across a missed release: it is never
\* left suspended on a listener that has not fired while the counter holds a
\* slot and no wakeup is on its way (the release fell between its failed
\* block(1) and the registration of its listener, and no block(1) was tried
\* after the registration).
C2_NoSuspendAcrossRelease ==
    \A r \in Requests : ~(Suspended(r) /\ count >= 1 /\ Quiet)

\* C3: no wakeup is lost: with requests re-polled whenever their waker fires
\* and every guard eventually dropped, every request of a queue with at
\* least one slot eventually resolves to a guard.
C3_EveryRequestResolves ==
    (limit >= 1) => \A r \in Requests : <>(pc[r] = "done")

\* all block and release calls have returned
AllReturned == \A t \in Threads : tpc[t] = "idle"

\* C4 as claimed: once every call has returned, the counter equals the
\* initial value plus the total released minus the total successfully
\* blocked, and it is never below zero.
C4_ExactAccounting ==
    /\ count >= 0
    /\ AllReturned => count = limit + released - blocked

\* C4 as amended: for every interleaving of the load, compare-exchange and
\* fetch_add steps, the counter equals the initial value plus the total
\* released minus the total successfully blocked modulo 2^w (exactly that
\* value as long as no fetch_add went past usize::MAX), and it is never
\* below zero.
C4_AccountingModulo ==
    /\ count >= 0
    /\ count = (limit + released - blocked) % Modulus
    /\ (limit + released <= MaxUsize) => count = limit + released - blocked

C4_Witness ==
    /\ AllReturned
    /\ calls = MaxCalls
    /\ blocked > 0
    /\ limit + released - blocked > MaxUsize
    /\ count = (limit + released - blocked) % Modulus

\* C5: block(amt) returns true exactly when the counter holds at least amt
\* at the moment of its atomic step: a call that returns true found
\* count >= amt and lowered the counter by exactly amt, a call that returns
\* false found count < amt; on a queue just constructed with count N,
\* block(amt) with amt <= N returns true and leaves N - amt.
C5_BlockReturn ==
    [][\A t \in Threads :
        (tpc'[t] # tpc[t] \/ tres'[t] # tres[t] \/ tcur'[t] # tcur[t] \/ calls' # calls) =>
        /\ (ThreadCas(t) /\ tres'[t] = "true")
              => (count >= tamt[t] /\ count' = count - tamt[t])
        /\ (ThreadCas(t) /\ tres'[t] = "false") => count < tamt[t]
        /\ (ThreadCas(t) /\ count >= tamt[t] /\ count = tcur[t]) => tres'[t] = "true"
        /\ \A amt \in Amts :
              /\ (CallBlock(t, amt) /\ tres'[t] = "false") => count < amt
              /\ (CallBlock(t, amt) /\ count >= amt) => tpc'[t] = "cas"
        /\ (ThreadCas(t) /\ calls = 1)
              => (tres'[t] = "true" /\ tamt[t] <= limit /\ count' = limit - tamt[t])
      ]_vars

C5_Witness ==
    \E t \in Threads :
        /\ calls = 1
        /\ tres[t] = "true"
        /\ tpc[t] = "idle"
        /\ limit = MaxCount
        /\ count = 0

\* C6: block(amt) with amt greater than the current counter value returns
\* false and changes nothing: counter, listeners, notifications, wakers and
\* every request and guard are as before, however often it is repeated.
C6_FailedBlockNoEffect ==
    [][LET t == MixedThread IN
        (thrVars' # thrVars) =>
        /\ \A amt \in MixedAmts :
              (CallBlock(t, amt) /\ amt > count)
                 => (tres'[t] = "false" /\ tpc'[t] = "idle")
        /\ (ThreadCas(t) /\ tamt[t] > count)
              => (tres'[t] = "false" /\ tpc'[t] = "idle")
        /\ ((\/ \E amt \in MixedAmts : CallBlock(t, amt)
             \/ ThreadCas(t)) /\ tres'[t] = "false")
              => UNCHANGED <<limit, count, list, released, blocked,
                             pc, listener, current, ret, woken, guard>>
      ]_vars

C6_Witness ==
    /\ tres[MixedThread] = "false"
    /\ tpc[MixedThread] = "idle"
    /\ calls >= 2
    /\ released = 0
    /\ limit = 0
    /\ \E i \in 1..Len(list) : list[i].state = "Polling"

\* C7 as claimed: release(amt) adds exactly amt to the counter whatever its
\* current value is.
C7_ReleaseAddsExactly ==
    [][\A t \in Threads : \A amt \in Amts :
        CallRelease(t, amt) => count' = count + amt]_vars

\* C7 as amended: release(amt) always succeeds and adds exactly amt to the
\* counter, from 0 and above the construction count alike (no cap), as long
\* as counter + amt does not exceed usize::MAX; past it the counter wraps to
\* (counter + amt) mod 2^w.
C7_ReleaseAddsModulo ==
    [][\A t \in Threads : \A amt \in Amts :
        /\ (tpc[t] = "idle" /\ calls < MaxCalls) => ENABLED CallRelease(t, amt)
        /\ CallRelease(t, amt) =>
              /\ count' = (count + amt) % Modulus
              /\ (count + amt <= MaxUsize) => count' = count + amt
      ]_vars

C7_Witness ==
    /\ released > 0
    /\ blocked = 0
    /\ count > MaxCount
    /\ count = limit + released

\* the requests outside S were never polled
Untouched(S) ==
    \A q \in Requests \ S : pc[q] = "idle" /\ ret[q] = "none" /\ guard[q] = "none"

\* the indices of the listeners that are not yet notified
Unnotified(l) == {i \in 1..Len(l) : l[i].state # "Notified"}

\* l with its earliest-registered unnotified listener notified
NotifyFirst(l) ==
    IF Unnotified(l) = {} THEN l
    ELSE LET i == CHOOSE k \in Unnotified(l) : \A j \in Unnotified(l) : k <= j
         IN  [l EXCEPT ![i] = Entry(l[i].owner, "Notified")]

\* the next poll of b takes the slot that is in the counter: b is notified
\* and woken, or its poll is on its way to a compare-exchange that succeeds
ResolvesNext(b) ==
    \/ pc[b] = "done"
    \/ /\ count = 1
       /\ pc[b] \notin {"listen", "lpoll"}
       /\ pc[b] = "idle" => (IsNotified(list, b) /\ woken[b])
       /\ pc[b] = "cas" => current[b] = 1

\* C8: dropping an AccessGuard returns exactly one slot exactly once: the
\* counter rises by 1, the earliest unnotified waiter is notified, and a
\* dropped guard never releases again.  With limit 1: a first request
\* polled alone never returns Pending, no second guard exists while the
\* first is live, and once the second request has returned Pending and the
\* first guard is then dropped, the second request's next poll resolves.
C8_DropReturnsOneSlot ==
    /\ [][\A r \in Requests :
            /\ DropGuard(r) => (count' = count + 1 /\ released' = released + 1)
            /\ DropNotify(r) => (list' = NotifyFirst(list) /\ count' = count)
            /\ guard[r] \in {"releasing", "dropped"}
                  => (guard'[r] \in {"releasing", "dropped"} /\ guard'[r] # "live")
         ]_vars
    /\ [](released = Cardinality(GoneGuards))
    /\ [](\A a \in Requests :
            (limit >= 1 /\ Untouched({a}))
               => (ret[a] # "Pending" /\ pc[a] \notin {"listen", "lpoll"}))
    /\ [](\A a, b \in Requests :
            (a # b /\ limit = 1 /\ guard[a] = "live") => guard[b] \notin {"live", "held"})
    /\ \A a, b \in Requests :
          [](( /\ a # b
               /\ limit = 1
               /\ guard[a] = "live"
               /\ Suspended(b)
               /\ Untouched({a, b}))
             => []((guard[a] = "dropped" /\ Untouched({a, b})) => ResolvesNext(b)))

C8_Witness ==
    \E a, b \in Requests :
        /\ a # b
        /\ limit = 1
        /\ guard[a] = "dropped"
        /\ Untouched({a, b})
        /\ pc[b] = "idle"
        /\ IsNotified(list, b)
        /\ woken[b]
        /\ count = 1

\* every slot is held by a guard converted with hold_indefinitely
AllHeld == Cardinality(HeldGuards) = limit

\* C9: hold_indefinitely consumes the guard without releasing its slot: the
\* call leaves counter, listeners and wakers as they are, a held guard stays
\* held and is never counted as released, and once every slot is held the
\* counter stays 0, no guard is live and every poll of a pending request
\* returns Pending.
C9_HoldNeverReleases ==
    /\ [][\A r \in Requests :
            /\ (guard[r] = "live" /\ guard'[r] = "held")
                  => UNCHANGED <<count, list, woken, released, blocked, pc, ret>>
            /\ guard[r] = "held" => guard'[r] = "held"
            /\ AllHeld => /\ pc[r] # "done" => pc'[r] # "done"
                          /\ (pc[r] # "idle" /\ pc'[r] = "idle") => ret'[r] = "Pending"
                          /\ ret[r] # "Ready" => ret'[r] # "Ready"
         ]_vars
    /\ [](released + Cardinality(LiveGuards) + Cardinality(HeldGuards) = blocked)
    /\ [](AllHeld => (count = 0 /\ LiveGuards = {}))

C9_Witness ==
    \E a, b \in Requests :
        /\ limit = 1
        /\ guard[a] = "held"
        /\ Suspended(b)
        /\ ret[b] = "Pending"
        /\ ~woken[b]
        /\ count = 0

\* C10: waiters are woken in registration order: a listener is never
\* notified while one registered before it is still unnotified, and a
\* release(1) notifies exactly the earliest unnotified listener.  With two
\* requests suspended, first A then B, release(1) notifies A and leaves B
\* as it was; A's next poll drops its listener and goes on to block(1),
\* which takes the released slot, while a poll of B returns Pending; a
\* second release(1) notifies B.
C10_WokenInRegistrationOrder ==
    /\ [](\A i, j \in 1..Len(list) :
            (i < j /\ list[j].state = "Notified") => list[i].state = "Notified")
    /\ [][/\ (tpc[MixedThread] = "notify" /\ tamt[MixedThread] = 1 /\ ThreadNotify(MixedThread))
               => /\ list' = NotifyFirst(list)
                  /\ \A A, B \in Requests :
                        list = <<Entry(A, "Polling"), Entry(B, "Polling")>>
                           => /\ list' = <<Entry(A, "Notified"), Entry(B, "Polling")>>
                              /\ woken'[A]
                              /\ woken'[B] = woken[B]
                  /\ \A B \in Requests :
                        list = <<Entry(B, "Polling")>>
                           => (list' = <<Entry(B, "Notified")>> /\ woken'[B])
          /\ \A r \in Requests :
                /\ (listener[r] /\ IsNotified(list, r) /\ Poll(r))
                      => (pc'[r] = "load" /\ list' = Remove(list, r))
                /\ (listener[r] /\ ~IsNotified(list, r) /\ Poll(r))
                      => (ret'[r] = "Pending" /\ pc'[r] = "idle" /\ list' = list
                          /\ count' = count)
                /\ (count >= 1 /\ BlockLoad(r)) => pc'[r] = "cas"
                /\ (count = current[r] /\ BlockCas(r))
                      => (ret'[r] = "Ready" /\ guard'[r] = "live" /\ count' = count - 1)
         ]_vars

C10_Witness ==
    \E A, B \in Requests :
        /\ A # B
        /\ limit = 0
        /\ calls = 2
        /\ released = 2
        /\ guard[A] = "live"
        /\ list = <<Entry(B, "Notified")>>
        /\ woken[B]
        /\ count = 1

\* the positions of the entries a notification has newly notified
NewlyNotified(l, l2) ==
    {i \in 1..Len(l) : l[i].state # "Notified" /\ l2[i].state = "Notified"}

Min(a, b) == IF a <= b THEN a ELSE b

\* a notification of n: exactly min(n, unnotified entries) entries become
\* notified, no entry is added, removed or moved, and the entries that were
\* already notified stay as they are
NotifiesExactly(n) ==
    /\ Len(list') = Len(list)
    /\ \A i \in 1..Len(list) : list'[i].owner = list[i].owner
    /\ \A i \in 1..Len(list) : list[i].state = "Notified" => list'[i] = list[i]
    /\ \A i \in Unnotified(list) \ NewlyNotified(list, list') : list'[i] = list[i]
    /\ Cardinality(NewlyNotified(list, list')) = Min(n, Cardinality(Unnotified(list)))

\* C11: release(amt) never wakes fewer waiters than needed: its notification
\* notifies min(amt, number of registered listeners not yet notified)
\* further listeners, so listeners that are already notified but not yet
\* polled do not absorb it; the release of a dropped guard does so with 1.
C11_ReleaseNotifiesAdditional ==
    [][ /\ (tpc[MixedThread] = "notify" /\ tpc'[MixedThread] = "idle")
            => NotifiesExactly(tamt[MixedThread])
        /\ \A r \in MixedRequests :
                (guard[r] = "releasing" /\ guard'[r] = "dropped") => NotifiesExactly(1)
      ]_vars

C11_Witness ==
    \E A, B \in MixedRequests :
        /\ A # B
        /\ limit = 0
        /\ calls = 2
        /\ released = 2
        /\ tpc[MixedThread] = "idle"
        /\ count = 2
        /\ list = <<Entry(A, "Notified"), Entry(B, "Notified")>>
        /\ woken[A] /\ woken[B]

\* C12 as claimed: each Access request produces at most one guard over its
\* whole life: once a poll of it has returned Ready, no later poll of the
\* same request takes another slot or yields a second guard.
C12_AtMostOneGuard ==
    [][\A r \in Requests :
            (guard[r] # "none") => ~(guard'[r] = "live" /\ guard[r] # "live")
      ]_vars

\* C12 as amended: each poll that returns Ready takes exactly one slot and
\* yields exactly one guard, a guard comes from nothing but such a poll, and
\* a request that is not polled again after Ready yields no further guard;
\* the request keeps no record of having resolved, so a later poll of the
\* same object goes through block(1) again.
C12_OneGuardPerReady ==
    [][\A r \in Requests :
            /\ (guard'[r] = "live" /\ guard[r] # "live")
                  => /\ pc[r] = "cas" /\ pc'[r] = "done"
                     /\ ret'[r] = "Ready"
                     /\ count >= 1 /\ count' = count - 1
                     /\ blocked' = blocked + 1
            /\ (pc[r] # "done" /\ pc'[r] = "done")
                  => (ret'[r] = "Ready" /\ guard[r] # "live" /\ guard'[r] = "live")
            /\ (pc[r] = "done" /\ pc'[r] = "done")
                  => (guard'[r] = "live" => guard[r] = "live")
            /\ (pc[r] = "done" /\ pc'[r] # "done")
                  => (pc'[r] = "load" /\ ~listener[r] /\ count' = count /\ guard'[r] = guard[r])
      ]_vars

\* a request holds its second guard: two guards were handed out and no other
\* request has resolved
C12_Witness ==
    \E A \in Requests :
        /\ blocked = 2
        /\ released = 1
        /\ guard[A] = "live"
        /\ ret[A] = "Ready"
        /\ \A q \in Requests \ {A} : guard[q] = "none"

\* r is dropped in this step
Cancelled(r) == pc[r] # "cancelled" /\ pc'[r] = "cancelled"

\* C13: dropping an Access request before it resolves, whether it is
\* unregistered or holds a listener, fired or not, leaves the counter
\* unchanged and releases nothing; its listener entry is gone; and a pending
\* request never holds a slot: the counter and the guards still add up to
\* the construction count.
C13_CancelKeepsCounter ==
    /\ [](count + Cardinality(LiveGuards) + Cardinality(HeldGuards) = limit)
    /\ [](\A r \in Requests : pc[r] = "cancelled" => (guard[r] = "none" /\ ~HasEntry(list, r)))
    /\ [][\A r \in Requests :
              Cancelled(r) => /\ count' = count
                              /\ released' = released
                              /\ blocked' = blocked
                              /\ guard' = guard
                              /\ ~HasEntry(list', r)
                              /\ \A q \in Requests \ {r} : pc'[q] = pc[q]
         ]_vars

\* one request was dropped before its first poll and one after it had
\* returned Pending; the slot of the dropped guard is in the counter
C13_Witness ==
    \E A, B, C \in Requests :
        /\ limit = 1
        /\ guard[C] = "dropped"
        /\ pc[A] = "cancelled" /\ ret[A] = "Pending"
        /\ pc[B] = "cancelled" /\ ret[B] = "none"
        /\ count = 1
        /\ list = << >>

\* the guard of a is gone, by drop or by reenqueue, and a has not been
\* polled since (`released` tells which guard of the run it is, `blocked`
\* whether the other request has resolved in the meantime)
Passed(a, how) == guard[a] = how /\ pc[a] = "done"

NoWaiter == Unnotified(list) = {}

C16_SkipQueueChangesNothing ==
    [][(calls' # calls)
          => /\ count' = count
             /\ list' = list
             /\ woken' = woken
             /\ listener' = listener
             /\ pc' = pc
             /\ guard' = guard
             /\ limit' = limit
      ]_vars

\* skip_queue was called twice, the second time by a thread, while one
\* request holds a listener that has fired and has not been polled
C16_Witness ==
    \E A, B \in MixedRequests :
        /\ A # B
        /\ limit = 1
        /\ calls = 2
        /\ tres[MixedThread] = "inner"
        /\ guard[A] = "dropped"
        /\ pc[B] = "idle"
        /\ list = <<Entry(B, "Notified")>>
        /\ count = 1

\* C17: a poll of an Access request that holds a listener which has not
\* fired returns Pending without attempting block(1), without registering a
\* new listener and without changing the counter, even when the counter is
\* positive at that moment: while the request is suspended, no step of it
\* moves it, changes its entry or the counter, and nothing but a
\* notification ends the suspension.
C17_UnfiredListenerPending ==
    [][\A r \in Requests :
          Suspended(r)
             => /\ pc'[r] = "idle"
                /\ ret'[r] = "Pending"
                /\ listener'[r]
                /\ current'[r] = current[r]
                /\ guard'[r] = guard[r]
                /\ Len(SelectSeq(list', LAMBDA e : e.owner = r)) = 1
                /\ ~Suspended(r)' => (IsNotified(list', r) /\ woken'[r])
                /\ (\A q \in Requests \ {r} : pc'[q] = pc[q] /\ guard'[q] = guard[q])
                      => (count' = count /\ Len(list') = Len(list))
      ]_vars

\* a request is suspended on a listener that has not fired, polled since its
\* last wakeup, while the counter is positive
C17_Witness ==
    \E A, B \in Requests :
        /\ A # B
        /\ Suspended(A)
        /\ ret[A] = "Pending"
        /\ ~woken[A]
        /\ count >= 1
        /\ guard[B] = "dropped"
        /\ list = <<Entry(A, "Polling")>>

\* C18: a woken waiter that loses the slot to another caller's block does
\* not resolve: a request resolves only through its own successful
\* compare-exchange of block(1), which takes one from a positive counter; a
\* request whose listener has fired gives that listener up when it is
\* polled and tries block(1); and a request whose block(1) has failed
\* registers a fresh listener behind the listeners already registered and,
\* unless that one fires at once, returns Pending holding it.
C18_LoserSuspendsAgain ==
    [][\A r \in MixedRequests :
          (pc'[r] # pc[r])
             => /\ pc'[r] = "done"
                   => /\ pc[r] = "cas"
                      /\ count = current[r]
                      /\ count >= 1
                      /\ count' = count - 1
                      /\ guard'[r] = "live"
                /\ (pc[r] = "idle" /\ IsNotified(list, r))
                   => (pc'[r] = "load" /\ ~listener'[r] /\ list' = Remove(list, r))
                /\ (pc[r] \in {"load", "cas"} /\ count = 0)
                   => (pc'[r] = "listen" /\ guard'[r] = guard[r] /\ ret'[r] # "Ready")
                /\ pc[r] = "listen"
                   => /\ ~HasEntry(list, r)
                      /\ list' = list \o <<Entry(r, "Created")>>
                      /\ pc'[r] = "lpoll"
                /\ (pc[r] = "lpoll" /\ ~IsNotified(list, r))
                   => /\ pc'[r] = "idle"
                      /\ ret'[r] = "Pending"
                      /\ listener'[r]
                      /\ list' = SetState(list, r, "Polling")
                      /\ count' = count
      ]_vars

\* the queue started empty, one slot was released and a thread's block(1)
\* took it, no request has resolved, and both requests are suspended: the
\* request that the release had woken is registered again, behind the other
C18_Witness ==
    \E A, B \in MixedRequests :
        /\ A # B
        /\ limit = 0
        /\ released = 1
        /\ blocked = 1
        /\ tres[MixedThread] = "true"
        /\ tpc[MixedThread] = "idle"
        /\ count = 0
        /\ list = <<Entry(B, "Polling"), Entry(A, "Polling")>>
        /\ Suspended(A) /\ Suspended(B)
        /\ guard[A] = "none" /\ guard[B] = "none"

\* C19: release(amt) wraps on overflow: when counter + amt exceeds the
\* largest value of the counter, the counter becomes counter + amt - 2^w,
\* which is (counter + amt) mod 2^w, and the call goes on to its
\* notification like any other: it neither fails nor saturates.
C19_ReleaseWraps ==
    [][\A t \in Threads :
          (tpc[t] = "idle" /\ tpc'[t] = "notify" /\ count + tamt'[t] > MaxUsize)
             => /\ count' = count + tamt'[t] - Modulus
                /\ count' < count
                /\ count' # MaxUsize
                /\ released' = released + tamt'[t]
      ]_vars

\* a release(usize::MAX) on a counter of MaxCount has wrapped: the counter
\* is MaxCount - 1 and the call is at its notification
C19_Witness ==
    \E t \in Threads :
        /\ limit = MaxCount
        /\ calls = 1
        /\ tpc[t] = "notify"
        /\ tamt[t] = MaxUsize
        /\ released = MaxUsize
        /\ count = MaxCount - 1

\* the entry that the next notification reaches: the earliest registered
\* one that is not yet notified, if any
NextInLine(l, b) ==
    \E i \in Unnotified(l) : l[i].owner = b /\ \A j \in Unnotified(l) : i <= j

\* C20: cancelling a notified waiter does not strand the others: when a
\* request whose listener has fired is dropped before it is polled again,
\* the notification is passed on: the earliest suspended request is notified
\* and its waker fires, the counter keeps the slot, and with limit 1 that
\* request's next poll takes it instead of staying suspended with the
\* counter at 1.
C20_CancelPassesNotification ==
    /\ [][\A r \in Requests :
              (Cancelled(r) /\ IsNotified(list, r))
                 => /\ count' = count
                    /\ Len(list') = Len(list) - 1
                    /\ \A b \in Requests \ {r} :
                          /\ (Suspended(b) /\ NextInLine(list, b))
                                => (IsNotified(list', b) /\ woken'[b] /\ pc'[b] = "idle")
                          /\ IsNotified(list, b) => IsNotified(list', b)
                          /\ (HasEntry(list, b) /\ ~NextInLine(list, b) /\ ~IsNotified(list, b))
                                => ~IsNotified(list', b)
         ]_vars
    /\ \A a, b, c \in Requests :
          [](( /\ a # b /\ b # c /\ a # c
               /\ limit = 1
               /\ guard[a] = "live"
               /\ Suspended(b) /\ Suspended(c)
               /\ NextInLine(list, b))
             => []((guard[a] = "dropped" /\ pc[b] = "cancelled" /\ Untouched({a, b, c}))
                      => ResolvesNext(c)))

\* the first waiter was notified by the drop of the guard and then dropped
\* itself; the second waiter now holds the notification, with the slot still
\* in the counter
C20_Witness ==
    \E a, b, c \in Requests :
        /\ a # b /\ b # c /\ a # c
        /\ limit = 1
        /\ guard[a] = "dropped"
        /\ pc[b] = "cancelled" /\ ret[b] = "Pending"
        /\ pc[c] = "idle"
        /\ list = <<Entry(c, "Notified")>>
        /\ woken[c]
        /\ count = 1
        /\ released = 1

\* ------------------------------------------------------- types
TypeOK ==
    /\ limit \in 0..MaxCount
    /\ count \in 0..MaxUsize
    /\ pc \in [Requests -> {"idle", "load", "cas", "listen", "lpoll", "done", "cancelled"}]
    /\ listener \in [Requests -> BOOLEAN]
    /\ guard \in [Requests -> {"none", "live", "releasing", "dropped", "held",
                             "requeueing", "requeued"}]
    /\ tpc \in [Threads -> {"idle", "cas", "notify"}]
    /\ tamt \in [Threads -> Amts]
    /\ tcur \in [Threads -> 0..MaxUsize]
    /\ tres \in [Threads -> {"none", "true", "false", "inner"}]
    /\ \A r \in Requests : HasEntry(list, r) <=> (listener[r] \/ pc[r] = "lpoll")
====
